---- MODULE Spec2Model ----
(***************************************************************************)
(* VPATH search engine of Make-plus (src/vpath.c) and the Windows path     *)
(* list conversion it calls (src/w32/pathstuff.c).                         *)
(*                                                                         *)
(* A C string is a sequence of one-character strings; a pointer that may   *)
(* be NULL is a sequence of length 0 (NULL) or 1.                          *)
(***************************************************************************)
EXTENDS Naturals, Integers, Sequences, FiniteSets, TLC

VARIABLES
  w32,            \* build: WINDOWS32 / HAVE_DOS_PATHS defined
  vpaths,         \* chain of selective lists, head first
  general_vpath,  \* NULL or the list of the VPATH variable
  gpaths,         \* NULL or the list of the GPATH variable
  built,          \* build_vpath_lists has run
  nextDecl,       \* number of lists declared so far
  db,             \* target database: set of [name, is_target, last_mtime]
  dircache,       \* directory cache: set of <<directory, file name>>
  disk,           \* names for which stat() succeeds
  res,            \* outcome of the last vpath_search call (NULL before one)
  arg,            \* NULL, or the arguments a run applies one function to
  ret             \* NULL, or what that function returned

vars == <<w32, vpaths, general_vpath, gpaths, built, nextDecl,
          db, dircache, disk, res, arg, ret>>

NULL == <<>>

Ptr(x) == <<x>>

\* Largest number of selective lists declared in one run.
MaxLists == 2

\* Largest length of a directory string drawn character by character.
MaxDirLen == 5

\* Largest length of a name given to gpath_search.
MaxNameLen == 3

\* Largest length of a pattern and of a file name given to vpath_match.
MaxPatLen == 4

\* Largest length of a path list given to the conversions of pathstuff.c.
MaxPathLen == 6

----------------------------------------------------------------------------
(* Characters and strings                                                  *)

ISBLANK(c) == c = " " \/ c = "\t"

PATH_SEPARATOR_CHAR == IF w32 THEN ";" ELSE ":"

\* STOP_SET (c, MAP_BLANK|MAP_PATHSEP)
StopBlankOrSep(c) == ISBLANK(c) \/ c = PATH_SEPARATOR_CHAR

\* s[i], with the terminating NUL read as "" at Len(s)+1
At(s, i) == IF i >= 1 /\ i <= Len(s) THEN s[i] ELSE ""

Max(a, b) == IF a >= b THEN a ELSE b

\* the characters of s from position i on
From(s, i) == SubSeq(s, i, Len(s))

\* strrchr: position of the last c in s, 0 when there is none
RECURSIVE LastIndexFrom(_, _, _)
LastIndexFrom(s, c, i) ==
  IF i = 0 THEN 0
  ELSE IF s[i] = c THEN i
  ELSE LastIndexFrom(s, c, i - 1)

strrchr(s, c) == LastIndexFrom(s, c, Len(s))

\* strchr (s, c) != NULL
HasChar(s, c) == \E i \in 1..Len(s) : s[i] = c

----------------------------------------------------------------------------
(* src/w32/pathstuff.c                                                     *)

\* position of the first non-blank character of s (Len(s)+1 if none)
RECURSIVE SkipBlanks(_, _)
SkipBlanks(s, i) ==
  IF i <= Len(s) /\ ISBLANK(s[i]) THEN SkipBlanks(s, i + 1) ELSE i

\* s without its trailing blanks
RECURSIVE DropTrailingBlanks(_)
DropTrailingBlanks(s) ==
  IF Len(s) > 0 /\ ISBLANK(s[Len(s)])
  THEN DropTrailingBlanks(SubSeq(s, 1, Len(s) - 1))
  ELSE s

\* first pass of convert_vpath_from_windows32: is there a delimiter
\* outside a quoted string?
RECURSIVE DelimFound(_, _, _, _)
DelimFound(s, i, delim, instring) ==
  IF i > Len(s) THEN FALSE
  ELSE IF s[i] = "\"" THEN DelimFound(s, i + 1, delim, ~instring)
  ELSE IF s[i] = delim /\ ~instring THEN TRUE
  ELSE DelimFound(s, i + 1, delim, instring)

\* second pass of convert_vpath_from_windows32: the conversion loop
\* the target after a double quote: the quote is copied (variant)
AfterQuote_Copied(tgt) == Append(tgt, "\"")

\* the target after a double quote: the quote is skipped
AfterQuote(tgt) == tgt

RECURSIVE ConvertLoop(_, _, _, _, _, _, _)
ConvertLoop(s, i, tgt, instring, isescaped, delim_found, delim) ==
  IF i > Len(s) THEN tgt
  ELSE
    LET c == s[i] IN
    IF c = "\"" THEN
      ConvertLoop(s, i + 1, AfterQuote(tgt), ~instring, FALSE, delim_found, delim)
    ELSE IF ISBLANK(c) /\ ~isescaped /\ (instring \/ delim_found) THEN
      ConvertLoop(s, i + 1, tgt \o <<"\\", " ">>, instring, FALSE,
                  delim_found, delim)
    ELSE IF c = delim /\ ~instring THEN
      ConvertLoop(s, SkipBlanks(s, i + 1), DropTrailingBlanks(tgt) \o <<" ">>,
                  instring, FALSE, delim_found, delim)
    ELSE
      ConvertLoop(s, i + 1, Append(tgt, c), instring,
                  IF ~instring /\ c = "\\" THEN ~isescaped ELSE FALSE,
                  delim_found, delim)

\* NULL for an empty or all-blank Path, else the canonical string
convert_vpath_from_windows32(Path, delim) ==
  LET P == From(Path, SkipBlanks(Path, 1)) IN
  IF P = <<>> THEN NULL
  ELSE Ptr(DropTrailingBlanks(
             ConvertLoop(P, 1, <<>>, FALSE, FALSE,
                         DelimFound(P, 1, delim, FALSE), delim)))

\* a quoting that opens the double quotes at the start of the list
Enquoted_AtStart(tgt, mark) == <<"\"">> \o tgt \o <<"\"">>

\* tgt with the segment that starts at mark put in double quotes
Enquoted(tgt, mark) ==
  SubSeq(tgt, 1, mark - 1) \o <<"\"">> \o SubSeq(tgt, mark, Len(tgt))
    \o <<"\"">>

\* the conversion loop of convert_Path_to_windows32; mark is the position in
\* tgt where the current path name starts
RECURSIVE ToWindowsLoop(_, _, _, _, _, _, _)
ToWindowsLoop(s, i, tgt, mark, enquote, instring, delim) ==
  IF i > Len(s)
  THEN IF enquote THEN Enquoted(tgt, mark) ELSE tgt
  ELSE IF ~instring /\ s[i] = "\\" /\ ISBLANK(At(s, i + 1))
  THEN ToWindowsLoop(s, i + 2, Append(tgt, " "), mark, TRUE, instring, delim)
  ELSE IF ~instring /\ ISBLANK(s[i])
  THEN IF enquote
       THEN ToWindowsLoop(s, i + 1, Append(Enquoted(tgt, mark), delim),
                          Len(tgt) + 4, FALSE, instring, delim)
       ELSE ToWindowsLoop(s, i + 1, Append(tgt, delim), Len(tgt) + 2, FALSE,
                          instring, delim)
  ELSE ToWindowsLoop(s, i + 1, Append(tgt, s[i]), mark, enquote,
                     IF s[i] = "\"" THEN ~instring ELSE instring, delim)

\* NULL for an empty or all-blank Path, else the list in Windows format
convert_Path_to_windows32(Path, delim) ==
  IF From(Path, SkipBlanks(Path, 1)) = <<>> THEN NULL
  ELSE Ptr(ToWindowsLoop(From(Path, SkipBlanks(Path, 1)), 1, <<>>, 1, FALSE,
                         FALSE, delim))

----------------------------------------------------------------------------
(* Pattern helpers                                                         *)

\* position of the '%' of a pattern, 0 when it has none
RECURSIVE FirstIndexFrom(_, _, _)
FirstIndexFrom(s, c, i) ==
  IF i > Len(s) THEN 0
  ELSE IF s[i] = c THEN i
  ELSE FirstIndexFrom(s, c, i + 1)

find_percent(pattern) == FirstIndexFrom(pattern, "%", 1)

\* single-% wildcard match of str against pattern; percent = 0: no wildcard
pattern_matches(pattern, percent, str) ==
  IF percent = 0 THEN pattern = str
  ELSE
    LET pfxlen == percent - 1
        sfxlen == Len(pattern) - percent
        strlength == Len(str)
    IN  /\ strlength >= pfxlen + sfxlen
        /\ SubSeq(pattern, 1, pfxlen) = SubSeq(str, 1, pfxlen)
        /\ SubSeq(pattern, percent + 1, Len(pattern))
             = SubSeq(str, strlength - sfxlen + 1, strlength)

----------------------------------------------------------------------------
(* construct_vpath_list                                                    *)

\* struct vpath; decl is the number of the declaration that made the list
vpath_struct(pattern, percent, searchpath, maxlen, target_goal, decl) ==
  [pattern |-> pattern, percent |-> percent, patlen |-> Len(pattern),
   searchpath |-> searchpath, maxlen |-> maxlen,
   target_goal |-> target_goal, decl |-> decl]

\* a removal test that looks at the pattern only
RemoveMatches_AnyCategory(path, pattern, percent, is_target_path) ==
  pattern = NULL \/ pattern[1] = path.pattern

\* the test of the removal loop: does the directive (pattern, percent,
\* is_target_path) name the list path?
RemoveMatches(path, pattern, percent, is_target_path) ==
  /\ \/ pattern = NULL
     \/ /\ \/ (percent = 0 /\ path.percent = 0)
           \/ (percent # 0 /\ path.percent # 0 /\ percent = path.percent)
        /\ pattern[1] = path.pattern
  /\ path.target_goal = is_target_path

\* the removal loop: unlink every list the directive names
RECURSIVE RemoveListings(_, _, _, _)
RemoveListings(chain, pattern, percent, is_target_path) ==
  IF chain = <<>> THEN <<>>
  ELSE
    LET rest == RemoveListings(Tail(chain), pattern, percent, is_target_path)
    IN  IF RemoveMatches(Head(chain), pattern, percent, is_target_path)
        THEN rest
        ELSE <<Head(chain)>> \o rest

\* skip separators and blanks from position p on
RECURSIVE SkipSeparators(_, _)
SkipSeparators(s, p) ==
  IF p <= Len(s) /\ StopBlankOrSep(s[p]) THEN SkipSeparators(s, p + 1) ELSE p

\* a scan for the end of an entry that takes no backslash for an escape
RECURSIVE EntryEnd_NoEscape(_, _, _)
EntryEnd_NoEscape(s, p, isescaped) ==
  IF p <= Len(s) /\ ~StopBlankOrSep(s[p])
  THEN EntryEnd_NoEscape(s, p + 1, FALSE)
  ELSE p

\* find the end of the entry that starts at p
RECURSIVE EntryEnd(_, _, _)
EntryEnd(s, p, isescaped) ==
  IF /\ p <= Len(s)
     /\ s[p] # PATH_SEPARATOR_CHAR
     /\ (~ISBLANK(s[p]) \/ isescaped)
  THEN EntryEnd(s, p + 1, IF s[p] = "\\" THEN ~isescaped ELSE FALSE)
  ELSE p

\* a strip that does not spare the entry of one character
StrippedLen_AlwaysStrips(s, v, p) ==
  IF s[p - 1] = "/" \/ (w32 /\ s[p - 1] = "\\") THEN p - v - 1 ELSE p - v

\* length of the entry s[v..p-1] once a trailing slash is taken off
StrippedLen(s, v, p) ==
  LET len == p - v IN
  IF w32
  THEN IF /\ (len > 3 \/ (len > 1 /\ s[v + 1] # ":"))
          /\ (s[p - 1] = "/" \/ s[p - 1] = "\\")
       THEN len - 1 ELSE len
  ELSE IF len > 1 /\ s[p - 1] = "/" THEN len - 1 ELSE len

\* the parsing loop: the entries of the directory string s from p on
RECURSIVE ParseEntries(_, _, _)
ParseEntries(s, p, vpath) ==
  IF p > Len(s) THEN vpath
  ELSE
    LET e   == EntryEnd(s, p, FALSE)
        len == StrippedLen(s, p, e)
        nxt == SkipSeparators(s, e)
    IN  IF len > 1 \/ s[p] # "."
        THEN ParseEntries(s, nxt, Append(vpath, SubSeq(s, p, p + len - 1)))
        ELSE ParseEntries(s, nxt, vpath)

\* a maximum that looks at the first entry only
MaxEntryLen_First(vpath) == IF vpath = <<>> THEN 0 ELSE Len(Head(vpath))

\* maximum length of the entries of a search path
RECURSIVE MaxEntryLen(_)
MaxEntryLen(vpath) ==
  IF vpath = <<>> THEN 0
  ELSE Max(Len(Head(vpath)), MaxEntryLen(Tail(vpath)))

\* a link step that puts the new list in the place of the lists of the same
\* pattern and category
LinkAtHead_Replacing(path, chain) ==
  <<path>> \o SelectSeq(chain, LAMBDA l : ~(/\ l.pattern = path.pattern
                                            /\ l.target_goal = path.target_goal))

\* path->next = vpaths; vpaths = path
LinkAtHead(path, chain) == <<path>> \o chain

\* a construct_vpath_list that links a list for every directory string
construct_vpath_list_AlwaysLinks(chain, pattern, dirpath, is_target_path, decl) ==
  IF dirpath = NULL
  THEN RemoveListings(chain, pattern,
                      IF pattern # NULL THEN find_percent(pattern[1]) ELSE 0,
                      is_target_path)
  ELSE LinkAtHead(vpath_struct(pattern[1], find_percent(pattern[1]),
                               ParseEntries(dirpath[1],
                                            SkipSeparators(dirpath[1], 1), <<>>),
                               MaxEntryLen(ParseEntries(dirpath[1],
                                            SkipSeparators(dirpath[1], 1), <<>>)),
                               is_target_path, decl),
                  chain)

\* construct_vpath_list on the chain `chain`; pattern and dirpath may be NULL
construct_vpath_list(chain, pattern, dirpath, is_target_path, decl) ==
  LET percent == IF pattern # NULL THEN find_percent(pattern[1]) ELSE 0 IN
  IF dirpath = NULL
  THEN RemoveListings(chain, pattern, percent, is_target_path)
  ELSE
    LET conv == IF w32 THEN convert_vpath_from_windows32(dirpath[1], ";")
                ELSE dirpath
    IN  IF conv = NULL THEN chain
        ELSE
          LET s     == conv[1]
              vpath == ParseEntries(s, SkipSeparators(s, 1), <<>>)
          IN  IF Len(vpath) > 0
              THEN LinkAtHead(vpath_struct(pattern[1], percent, vpath,
                                           MaxEntryLen(vpath), is_target_path,
                                           decl),
                              chain)
              ELSE chain

----------------------------------------------------------------------------
(* gpath_search                                                            *)

\* strneq (a, b, n): strncmp (a, b, n) == 0, the comparison ending at the
\* first NUL
strneq(a, b, n) ==
  \A i \in 1..n : i <= Len(a) + 1 => At(a, i) = At(b, i)

\* a gpath_search that does not ask where the entry ends
gpath_search_PrefixOnly(file, len) ==
  /\ gpaths # NULL
  /\ len <= gpaths[1].maxlen
  /\ \E gp \in 1..Len(gpaths[1].searchpath) :
       strneq(gpaths[1].searchpath[gp], file, len)

\* gpath_search (file, len), for len <= strlen (file)
gpath_search(file, len) ==
  /\ gpaths # NULL
  /\ len <= gpaths[1].maxlen
  /\ \E gp \in 1..Len(gpaths[1].searchpath) :
       /\ strneq(gpaths[1].searchpath[gp], file, len)
       /\ At(gpaths[1].searchpath[gp], len + 1) = ""

----------------------------------------------------------------------------
(* The collaborators of the search: target database, directory cache and   *)
(* file system                                                             *)

\* lookup_file: NULL, or the database entry of name
lookup_file(name) ==
  IF \E f \in db : f.name = name
  THEN Ptr(CHOOSE f \in db : f.name = name)
  ELSE NULL

\* a directory name without its trailing slashes; the root stays "/"
RECURSIVE DirKey(_)
DirKey(dir) ==
  IF Len(dir) > 1 /\ dir[Len(dir)] = "/"
  THEN DirKey(SubSeq(dir, 1, Len(dir) - 1))
  ELSE dir

\* dir_file_exists_p: does the directory cache list filename in dirname?
dir_file_exists_p(dirname, filename) == <<DirKey(dirname), filename>> \in dircache

\* a path name as the kernel resolves it: a run of slashes is one slash
RECURSIVE Squeeze(_)
Squeeze(name) ==
  IF Len(name) < 2 THEN name
  ELSE IF name[1] = "/" /\ name[2] = "/" THEN Squeeze(Tail(name))
  ELSE <<name[1]>> \o Squeeze(Tail(name))

\* stat (name, &st) == 0
stat_ok(name) == Squeeze(name) \in disk

----------------------------------------------------------------------------
(* vpath_match and selective_vpath_search                                  *)

\* a match that leaves out a list with a directory of the exclusion list
vpath_match_UnlessExcluded(vpath, filename) ==
  /\ pattern_matches(vpath.pattern, vpath.percent, filename)
  /\ \A i \in 1..Len(vpath.searchpath) :
       ~gpath_search(vpath.searchpath[i], Len(vpath.searchpath[i]))

\* a match without the second try for a pattern that ends in '.'
vpath_match_PlainOnly(vpath, filename) ==
  pattern_matches(vpath.pattern, vpath.percent, filename)

\* a match that takes every file name without '.' for a pattern that ends
\* in '.'
vpath_match_AnyDotless(vpath, filename) ==
  \/ pattern_matches(vpath.pattern, vpath.percent, filename)
  \/ vpath.pattern[Len(vpath.pattern)] = "." /\ ~HasChar(filename, ".")

\* vpath_match (vpath, filename)
vpath_match(vpath, filename) ==
  \/ pattern_matches(vpath.pattern, vpath.percent, filename)
  \/ /\ vpath.pattern[Len(vpath.pattern)] = "."
     /\ ~HasChar(filename, ".")
     /\ LET p == SubSeq(vpath.pattern, 1, Len(vpath.pattern) - 1)
        IN  pattern_matches(p, find_percent(p), filename)

\* position of the rightmost separator of file (0: none): strrchr on '/',
\* on DOS paths the rightmost of '/' and '\'
LastSeparator(file) ==
  LET n == strrchr(file, "/")
      bslash == strrchr(file, "\\")
  IN  IF w32 /\ (n = 0 \/ bslash > n) THEN bslash ELSE n

\* the split of file: length of the directory prefix, name within directory
SplitFile(file) ==
  LET n == LastSeparator(file)
      name_dplen == IF n # 0 THEN n - 1 ELSE 0
  IN  [name_dplen |-> name_dplen,
       filename   |-> IF name_dplen > 0 THEN From(file, n + 1) ELSE file,
       flen       |-> IF name_dplen > 0 THEN Len(file) - (name_dplen + 1)
                      ELSE Len(file)]

\* the scratch buffer NAME for directory entry dir, and P, the number of
\* characters in front of the place where the name within directory goes
BuildName(dir, file) ==
  LET sp   == SplitFile(file)
      n1   == IF sp.name_dplen > 0
              THEN dir \o <<"/">> \o SubSeq(file, 1, sp.name_dplen)
              ELSE dir
      n2   == IF w32 /\ Len(n1) > 0 /\ n1[Len(n1)] = "\\"
              THEN [n1 EXCEPT ![Len(n1)] = "/"]
              ELSE n1
      pos  == Len(n2)
  IN  IF pos # 0 /\ n2[pos] # "/"
      THEN [name |-> n2 \o <<"/">> \o sp.filename, p |-> pos]
      ELSE [name |-> n2 \o sp.filename, p |-> pos]

\* *p = '/':  "put the slash back in NAME"
PutSlashBack(name, p) ==
  IF p + 1 <= Len(name) THEN [name EXCEPT ![p + 1] = "/"]
  ELSE Append(name, "/")

\* strcache_add_len (name, len): the C string made of the first len bytes
strcache_add_len(name, len) ==
  IF len <= Len(name) THEN SubSeq(name, 1, len) ELSE name

\* a database mention that is enough whatever the file searched for is
DbExists_AnyMention(is_target, f) == TRUE

\* exists = !is_target || f->is_target, for the database entry f
DbExists(is_target, f) == ~is_target \/ f.is_target

\* a stale-cache test that forgets that the file may be a target
StaleContinue_FlagOnly(is_target_path, is_target) == ~is_target_path

\* the test in front of `continue` once stat has failed
StaleContinue(is_target_path, is_target) == ~is_target_path /\ ~is_target

\* is_target = (f && f->is_target), for f the database entry of file
\* a test that takes every timestamp of the database
SpecialMtime_Any(last_mtime) == TRUE

\* f->last_mtime == OLD_MTIME || f->last_mtime == NEW_MTIME
SpecialMtime(last_mtime) == last_mtime \in {"OLD_MTIME", "NEW_MTIME"}

IsTargetFile(f) == f # NULL /\ f[1].is_target

\* the if-chain of one turn of the loop, once the collaborators have
\* answered: f is the database entry of the candidate, cached the answer of
\* the directory cache, stat_succeeds that of stat on the name with the slash
\* put back
JudgeEntry(name, len, f, cached, stat_succeeds, is_target, want_mtime, is_target_path) ==
  LET exists1  == f # NULL /\ DbExists(is_target, f[1])
      db_mtime == /\ exists1 /\ want_mtime
                  /\ SpecialMtime(f[1].last_mtime)
      in_cache == ~exists1 /\ cached
      e_fail   == in_cache /\ ~stat_succeeds
      want1    == want_mtime /\ ~db_mtime
  IN  [name  |-> name,
       len   |-> len,
       in_cache |-> in_cache,
       stat_failed |-> e_fail,
       kind  |-> IF ~exists1 /\ ~in_cache THEN "reject"
                 ELSE IF e_fail /\ StaleContinue(is_target_path, is_target)
                 THEN "continue"
                 ELSE "accept",
       mtime |-> IF db_mtime THEN f[1].last_mtime
                 ELSE IF in_cache /\ ~e_fail /\ want1 THEN "STAT"
                 ELSE IF want1 THEN "UNKNOWN_MTIME"
                 ELSE "UNSET"]

\* the questions one turn of the loop puts for the scratch buffer b of
\* BuildName and the split sp of the file name
AskEntry(b, sp, is_target, want_mtime, is_target_path) ==
  JudgeEntry(PutSlashBack(b.name, b.p), (b.p + 1) + sp.flen,
             lookup_file(b.name),
             dir_file_exists_p(SubSeq(b.name, 1, b.p), sp.filename),
             stat_ok(PutSlashBack(b.name, b.p)),
             is_target, want_mtime, is_target_path)

\* what one turn of the loop over the directory entries decides for entry i
\* (0-based) of path, seen with target-goal flag is_target_path:
\*   "accept"   the candidate is returned         "reject"  the if-else falls
\*   "continue" the stale-cache `continue`                  through
TryEntry(path, file, want_mtime, i, is_target_path) ==
  AskEntry(BuildName(path.searchpath[i + 1], file), SplitFile(file),
           IsTargetFile(lookup_file(file)), want_mtime, is_target_path)

\* a branch that records a name for every entry the list rejects
RecordsFallback_Again(is_target_path, tgt_name) == is_target_path

\* else if (is_target_path && tgt_name == NULL)
RecordsFallback(is_target_path, tgt_name) == is_target_path /\ tgt_name = NULL

RECURSIVE SelectiveLoop(_, _, _, _, _)

\* the end of one turn of the loop, t being what TryEntry decided for entry i
SelectiveStep(path, file, want_mtime, i, tgt_name, t) ==
  IF t.kind = "accept"
  THEN [status |-> "found", name |-> strcache_add_len(t.name, t.len),
        mtime |-> t.mtime, path_index |-> i, speculative |-> FALSE,
        len |-> t.len, failed |-> ""]
  ELSE IF t.kind = "reject" /\ RecordsFallback(path.target_goal, tgt_name)
  THEN IF i # 0
       THEN [status |-> "abort", name |-> t.name, mtime |-> "UNSET",
             path_index |-> 0, speculative |-> TRUE, len |-> t.len,
             failed |-> "i == 0"]
       ELSE IF t.len # Len(t.name)
       THEN [status |-> "abort", name |-> t.name, mtime |-> "UNSET",
             path_index |-> 0, speculative |-> TRUE, len |-> t.len,
             failed |-> "tgt_len == strlen(name)"]
       ELSE SelectiveLoop(path, file, want_mtime, i + 1,
                          Ptr(strcache_add_len(t.name, t.len)))
  ELSE SelectiveLoop(path, file, want_mtime, i + 1, tgt_name)

\* the loop of selective_vpath_search from entry i (0-based) on; tgt_name is
\* NULL or the recorded first-directory name
SelectiveLoop(path, file, want_mtime, i, tgt_name) ==
  IF i >= Len(path.searchpath)
  THEN IF tgt_name # NULL
       THEN [status |-> "found", name |-> tgt_name[1],
             mtime |-> IF want_mtime THEN "UNKNOWN_MTIME" ELSE "UNSET",
             path_index |-> 0, speculative |-> TRUE,
             len |-> Len(tgt_name[1]), failed |-> ""]
       ELSE [status |-> "none", name |-> <<>>, mtime |-> "UNSET",
             path_index |-> 0, speculative |-> FALSE, len |-> 0,
             failed |-> ""]
  ELSE SelectiveStep(path, file, want_mtime, i, tgt_name,
                     TryEntry(path, file, want_mtime, i, path.target_goal))

selective_vpath_search(path, file, want_mtime) ==
  SelectiveLoop(path, file, want_mtime, 0, NULL)

----------------------------------------------------------------------------
(* vpath_search                                                            *)

NoneFound ==
  [status |-> "none", name |-> <<>>, mtime |-> "UNSET", path_index |-> 0,
   speculative |-> FALSE, len |-> 0, failed |-> ""]

\* a guard that knows the root separator only
IsAbsolute_SlashOnly(file) == At(file, 1) = "/"

\* the guard in front of the three loops
IsAbsolute(file) ==
  \/ At(file, 1) = "/"
  \/ w32 /\ (At(file, 1) = "\\" \/ At(file, 2) = ":")

\* a first loop that searches each list with its own flag
ClearGoal_Kept(chain, k) == chain

\* v->target_goal = 0, for the list at position k
ClearGoal(chain, k) == [chain EXCEPT ![k].target_goal = FALSE]

\* a first loop that leaves the flag cleared
RestoreGoal_Forgotten(chain, k, save_goal) == chain

\* v->target_goal = save_goal
RestoreGoal(chain, k, save_goal) == [chain EXCEPT ![k].target_goal = save_goal]

RECURSIVE NonTargetPhase(_, _, _, _, _)

\* the end of one turn of the first loop: p is what selective_vpath_search
\* returned for the list at position k of cleared, the chain with that
\* list's flag cleared
NonTargetStep(cleared, k, save_goal, p, file, want_mtime, calls1) ==
  IF p.status = "abort"
  THEN [r |-> p, k |-> k, chain |-> cleared, calls |-> calls1]
  ELSE IF p.status = "found"
  THEN [r |-> p, k |-> k, chain |-> RestoreGoal(cleared, k, save_goal),
        calls |-> calls1]
  ELSE NonTargetPhase(RestoreGoal(cleared, k, save_goal), k + 1, file,
                      want_mtime, calls1)

\* first loop: every matching list, its target-goal flag cleared for the call
\* and put back after it; k is the 1-based position in the chain, calls the
\* record of the selective_vpath_search calls made so far
NonTargetPhase(chain, k, file, want_mtime, calls) ==
  IF k > Len(chain)
  THEN [r |-> NoneFound, k |-> k, chain |-> chain, calls |-> calls]
  ELSE IF vpath_match(chain[k], file)
  THEN NonTargetStep(ClearGoal(chain, k), k, chain[k].target_goal,
                     selective_vpath_search(ClearGoal(chain, k)[k], file,
                                            want_mtime),
                     file, want_mtime, Append(calls, <<1, k>>))
  ELSE NonTargetPhase(chain, k + 1, file, want_mtime, calls)

RECURSIVE TargetPhase(_, _, _, _, _)

\* the end of one turn of the second loop
TargetStep(chain, k, p, file, want_mtime, calls1) ==
  IF p.status # "none"
  THEN [r |-> p, k |-> k, chain |-> chain, calls |-> calls1]
  ELSE TargetPhase(chain, k + 1, file, want_mtime, calls1)

\* second loop: the matching lists whose target-goal flag is set
TargetPhase(chain, k, file, want_mtime, calls) ==
  IF k > Len(chain)
  THEN [r |-> NoneFound, k |-> k, chain |-> chain, calls |-> calls]
  ELSE IF chain[k].target_goal /\ vpath_match(chain[k], file)
  THEN TargetStep(chain, k,
                  selective_vpath_search(chain[k], file, want_mtime),
                  file, want_mtime, Append(calls, <<2, k>>))
  ELSE TargetPhase(chain, k + 1, file, want_mtime, calls)

\* the outputs of one call: the returned name (status "found"), or NULL
\* (status "none"), or a failed assertion (status "abort"); phase is the
\* loop that produced the result (0: none), chain the selective chain the
\* call leaves behind
SearchOutcome(file, want_mtime, r, phase, vpath_index, target_path, chain, calls) ==
  [file |-> file, want_mtime |-> want_mtime, status |-> r.status,
   name |-> r.name, mtime |-> r.mtime, vpath_index |-> vpath_index,
   path_index |-> r.path_index, target_path |-> target_path,
   speculative |-> r.speculative, len |-> r.len, failed |-> r.failed,
   phase |-> phase, chain |-> chain,
   calls |-> calls]

\* a search that leaves *target_path as it was set at entry
TargetPathOf_Never(v) == FALSE

\* *target_path for a result of list v
TargetPathOf(v) == v.target_goal

\* a list counter that is advanced for the matching lists only
ListIndex_MatchingOnly(chain, k, file) == Cardinality({j \in 1..(k - 1) : vpath_match(chain[j], file)})

\* *vpath_index when the loop stands at list k of the chain: reset before
\* the loop and advanced once for every list passed
ListIndex(chain, k, file) == k - 1

\* the search of the general list, p being what selective_vpath_search
\* returned for it
GeneralResult(general, p, file, want_mtime, chain, calls3) ==
  IF p.status # "none"
  THEN SearchOutcome(file, want_mtime, p, 3, 0, TargetPathOf(general[1]),
                     chain, calls3)
  ELSE SearchOutcome(file, want_mtime, NoneFound, 0, 0, FALSE, chain, calls3)

\* vpath_search after its second loop, ph2 being what that loop left
AfterTargetPhase(ph2, general, file, want_mtime) ==
  IF ph2.r.status # "none"
  THEN SearchOutcome(file, want_mtime, ph2.r, 2, ListIndex(ph2.chain, ph2.k, file),
                     TargetPathOf(ph2.chain[ph2.k]), ph2.chain, ph2.calls)
  ELSE IF general # NULL
  THEN GeneralResult(general,
                     selective_vpath_search(general[1], file, want_mtime),
                     file, want_mtime, ph2.chain, Append(ph2.calls, <<3, 0>>))
  ELSE SearchOutcome(file, want_mtime, NoneFound, 0, 0, FALSE, ph2.chain,
                     ph2.calls)

\* vpath_search after its first loop, ph1 being what that loop left
AfterNonTargetPhase(ph1, general, file, want_mtime) ==
  IF ph1.r.status # "none"
  THEN SearchOutcome(file, want_mtime, ph1.r, 1, ListIndex(ph1.chain, ph1.k, file),
                     TargetPathOf(ph1.chain[ph1.k]), ph1.chain, ph1.calls)
  ELSE AfterTargetPhase(TargetPhase(ph1.chain, 1, file, want_mtime, ph1.calls),
                        general, file, want_mtime)

vpath_search(chain, general, file, want_mtime) ==
  IF IsAbsolute(file) \/ (chain = <<>> /\ general = NULL)
  THEN SearchOutcome(file, want_mtime, NoneFound, 0, 0, FALSE, chain, <<>>)
  ELSE AfterNonTargetPhase(NonTargetPhase(chain, 1, file, want_mtime, <<>>),
                           general, file, want_mtime)

----------------------------------------------------------------------------
(* Inputs                                                                  *)

PatO == <<"%", ".", "o">>
PatC == <<"%", ".", "c">>
PatLit == <<"f", ".", "o">>
Patterns == {PatO, PatC, PatLit}

DirB == <<"/", "b">>
DirA == <<"a">>
DirRoot == <<"/">>
EnvDirs == {DirB, DirA, DirRoot}

\* directory strings of the directives: "/b a", "/ /b", "."
DirStrings == {<<"/", "b", " ", "a">>, <<"/", " ", "/", "b">>, <<".">>}

\* values of $(strip $(VPATH)) and $(strip $(GPATH))
VpathValues == {<<>>, DirA}
GpathValues == {<<>>, DirB, <<"/", "b", " ", "a">>}

\* file names searched for: "f.o", "d/f.o", "/f.o" and, where DOS paths
\* are recognised, "c:f.o" and "\f.o"
FileO == <<"f", ".", "o">>
FileDO == <<"d", "/", "f", ".", "o">>
FileAbs == <<"/", "f", ".", "o">>
FileDrive == <<"c", ":", "f", ".", "o">>
FileBackslash == <<"\\", "f", ".", "o">>
RelFiles == {FileO, FileDO}
SearchFiles ==
  RelFiles \cup {FileAbs} \cup (IF w32 THEN {FileDrive, FileBackslash} ELSE {})

\* what the surroundings hold about the files below one directory:
\* db    "none"   no database entry        fs  "absent"  not in the cache
\*       "plain"  entry, not a target          "stale"   cached, stat fails
\*       "old"    plain entry with OLD_MTIME   "present" cached, stat succeeds
\*       "new"    plain entry with NEW_MTIME
\*       "target" entry that is a target
DbKinds == {"none", "plain", "old", "new", "target"}
FsKinds == {"absent", "stale", "present"}
Nothing == [db |-> "none", fs |-> "absent"]

\* the worlds of a run: the files are known below one directory at most
Worlds ==
  {[d \in EnvDirs |-> Nothing]}
  \cup {[d \in EnvDirs |-> IF d = e THEN k ELSE Nothing] :
          e \in EnvDirs, k \in [db : DbKinds, fs : FsKinds]}

\* the name of file f below directory d
TruePath(d, f) == IF d[Len(d)] = "/" THEN d \o f ELSE d \o <<"/">> \o f

\* directory part and base name of the relative file name f
PrefixOf(f) == SubSeq(f, 1, Max(strrchr(f, "/") - 1, 0))
BaseOf(f) == From(f, strrchr(f, "/") + 1)

DbOf(w, file_is_target) ==
  {[name |-> TruePath(d, f), is_target |-> w[d].db = "target",
    last_mtime |-> IF w[d].db = "old" THEN "OLD_MTIME"
                   ELSE IF w[d].db = "new" THEN "NEW_MTIME" ELSE "T1"] :
      d \in {x \in EnvDirs : w[x].db # "none"}, f \in RelFiles}
  \cup (IF file_is_target
        THEN {[name |-> f, is_target |-> TRUE, last_mtime |-> "UNKNOWN_MTIME"] :
                f \in RelFiles}
        ELSE {})

DirCacheOf(w) ==
  {<<IF PrefixOf(f) = <<>> THEN d ELSE TruePath(d, PrefixOf(f)), BaseOf(f)>> :
      d \in {x \in EnvDirs : w[x].fs # "absent"}, f \in RelFiles}

DiskOf(w) ==
  {TruePath(d, f) : d \in {x \in EnvDirs : w[x].fs = "present"}, f \in RelFiles}

----------------------------------------------------------------------------
(* The state machine                                                       *)

\* the static variables of vpath.c at program start
InitLists(platform) ==
  /\ w32 = platform
  /\ vpaths = <<>>
  /\ general_vpath = NULL
  /\ gpaths = NULL
  /\ built = FALSE
  /\ nextDecl = 0
  /\ res = NULL

\* the surroundings of a run
InitWorld(w, file_is_target) ==
  /\ db = DbOf(w, file_is_target)
  /\ dircache = DirCacheOf(w)
  /\ disk = DiskOf(w)

InitWith(platform) ==
  /\ InitLists(platform)
  /\ \E w \in Worlds, file_is_target \in BOOLEAN : InitWorld(w, file_is_target)
  /\ arg = NULL
  /\ ret = NULL

Init == InitWith(FALSE)

\* either build: POSIX paths, or WINDOWS32 with DOS paths
InitPlatforms == \E platform \in BOOLEAN : InitWith(platform)

\* a directive with a directory string: construct_vpath_list (pattern, dirs, t)
ApplyDirective ==
  \E pattern \in Patterns, dirs \in DirStrings, t \in BOOLEAN :
    /\ ~built
    /\ nextDecl < MaxLists
    /\ vpaths' = construct_vpath_list(vpaths, Ptr(pattern), Ptr(dirs), t,
                                      nextDecl + 1)
    /\ nextDecl' = IF Len(vpaths') > Len(vpaths) THEN nextDecl + 1 ELSE nextDecl
    /\ UNCHANGED <<w32, general_vpath, gpaths, built, db, dircache, disk, res,
                   arg, ret>>

\* a directive without one: construct_vpath_list (pattern, NULL, t)
RemoveDirective ==
  \E pattern \in {NULL} \cup {Ptr(q) : q \in Patterns}, t \in BOOLEAN :
    /\ ~built
    /\ vpaths' = construct_vpath_list(vpaths, pattern, NULL, t, 0)
    /\ UNCHANGED <<w32, general_vpath, gpaths, built, nextDecl, db, dircache,
                   disk, res, arg, ret>>

\* a finalize step that leaves the chain as the directives linked it
ReverseChain_NotReversed(old, new) == old \o new

\* the chain in reverse order
RECURSIVE ReverseChain(_, _)
ReverseChain(old, new) ==
  IF old = <<>> THEN new
  ELSE ReverseChain(Tail(old), <<Head(old)>> \o new)

\* a build that parses the variable with the selective chain still in
\* vpaths
EmptiedVpaths_Kept(save_vpaths) == save_vpaths

\* vpaths while the value of VPATH or GPATH is parsed: save_vpaths holds the
\* chain and vpaths is nil
EmptiedVpaths(save_vpaths) == NULL

\* build_vpath_lists, with p the expansion of VPATH and g that of GPATH; the
\* chain is back in vpaths after each of the two lists is stored
build_vpath_lists(p, g) ==
  /\ vpaths' = ReverseChain(vpaths, <<>>)
  /\ general_vpath' =
       IF p # <<>>
       THEN construct_vpath_list(EmptiedVpaths(ReverseChain(vpaths, <<>>)),
                                 Ptr(<<"%">>), Ptr(p), FALSE, 0)
       ELSE general_vpath
  /\ gpaths' =
       IF g # <<>>
       THEN construct_vpath_list(EmptiedVpaths(ReverseChain(vpaths, <<>>)),
                                 Ptr(<<"%">>), Ptr(g), FALSE, 0)
       ELSE gpaths

Finalize ==
  \E p \in VpathValues, g \in GpathValues :
    /\ ~built
    /\ build_vpath_lists(p, g)
    /\ built' = TRUE
    /\ UNCHANGED <<w32, nextDecl, db, dircache, disk, res, arg, ret>>

\* the call vpath_search (file, ...) of a run
SearchFor(file) ==
  \E want_mtime \in BOOLEAN :
    /\ built
    /\ res = NULL
    /\ \E o \in {vpath_search(vpaths, general_vpath, file, want_mtime)} :
         /\ res' = Ptr([x \in DOMAIN o \ {"chain"} |-> o[x]])
         /\ vpaths' = o.chain
    /\ UNCHANGED <<w32, general_vpath, gpaths, built, nextDecl, db, dircache,
                   disk, arg, ret>>

Search == \E file \in SearchFiles : SearchFor(file)

Next == ApplyDirective \/ RemoveDirective \/ Finalize \/ Search

Spec == Init /\ [][Next]_vars

SpecPlatforms == InitPlatforms /\ [][Next]_vars

----------------------------------------------------------------------------
(* Runs in which the exclusion list is built from another value of GPATH   *)
(* after a search, to compare the search with the one the other list gives *)

\* the exclusion list of another value of GPATH, all else as it is
ReplaceExclusion ==
  \E g \in GpathValues :
    /\ built
    /\ res # NULL
    /\ gpaths' =
         IF g # <<>>
         THEN construct_vpath_list(EmptiedVpaths(vpaths), Ptr(<<"%">>), Ptr(g),
                                   FALSE, 0)
         ELSE NULL
    /\ UNCHANGED <<w32, vpaths, general_vpath, built, nextDecl, db, dircache,
                   disk, res, arg, ret>>

NextExclusion == Next \/ ReplaceExclusion

SpecExclusion == Init /\ [][NextExclusion]_vars

----------------------------------------------------------------------------
(* Runs that hand one directory string, drawn character by character, to   *)
(* construct_vpath_list and to build_vpath_lists                           *)

\* the characters of such a directory string
DirAlphabet(platform) ==
  {"a", "/", ".", " ", "\\"} \cup (IF platform THEN {";", ":"} ELSE {":"})

AnyDirStrings(platform) ==
  UNION {[1..n -> DirAlphabet(platform)] : n \in 0..MaxDirLen}

\* a value $(strip ...) can give: not empty, no blank at either end, no two
\* blanks in a row
IsStripped(s) ==
  /\ s # <<>>
  /\ ~ISBLANK(s[1])
  /\ ~ISBLANK(s[Len(s)])
  /\ \A i \in 1..(Len(s) - 1) : ~(ISBLANK(s[i]) /\ ISBLANK(s[i + 1]))

InitStrings ==
  \E platform \in BOOLEAN :
    /\ InitLists(platform)
    /\ InitWorld([d \in EnvDirs |-> Nothing], FALSE)
    /\ \E d \in AnyDirStrings(platform), t \in BOOLEAN :
         arg = Ptr([dirpath |-> d, is_target_path |-> t])
    /\ ret = NULL

\* construct_vpath_list (pattern, dirpath, is_target_path) on the string
\* drawn; ret is the length of the chain it leaves
DeclareArg ==
  /\ ~built
  /\ ret = NULL
  /\ vpaths' = construct_vpath_list(vpaths, Ptr(PatO), Ptr(arg[1].dirpath),
                                    arg[1].is_target_path, nextDecl + 1)
  /\ nextDecl' = IF Len(vpaths') > Len(vpaths) THEN nextDecl + 1 ELSE nextDecl
  /\ ret' = Ptr(Len(vpaths'))
  /\ UNCHANGED <<w32, general_vpath, gpaths, built, db, dircache, disk, res,
                 arg>>

\* a directive in front of the one with the string drawn
DeclareFirst ==
  /\ ~built
  /\ ret = NULL
  /\ nextDecl = 0
  /\ vpaths' = construct_vpath_list(vpaths, Ptr(PatC), Ptr(DirA), TRUE,
                                    nextDecl + 1)
  /\ nextDecl' = nextDecl + 1
  /\ UNCHANGED <<w32, general_vpath, gpaths, built, db, dircache, disk, res,
                 arg, ret>>

\* build_vpath_lists with the string drawn as the value of VPATH or of GPATH
FinalizeArg ==
  \E variable \in {"VPATH", "GPATH"} :
    /\ ~built
    /\ IsStripped(arg[1].dirpath)
    /\ build_vpath_lists(IF variable = "VPATH" THEN arg[1].dirpath ELSE <<>>,
                         IF variable = "GPATH" THEN arg[1].dirpath ELSE <<>>)
    /\ built' = TRUE
    /\ UNCHANGED <<w32, nextDecl, db, dircache, disk, res, arg, ret>>

NextStrings == DeclareFirst \/ DeclareArg \/ FinalizeArg

SpecStrings == InitStrings /\ [][NextStrings]_vars

----------------------------------------------------------------------------
(* Runs that ask gpath_search about one name and one length, with the      *)
(* value of GPATH drawn character by character                             *)

\* the characters of the names and of the values of GPATH
GpathAlphabet == {"a", "/", " "}

\* the names given to gpath_search
GpathNames == UNION {[1..n -> GpathAlphabet \ {" "}] : n \in 0..MaxNameLen}

\* the values of $(strip $(GPATH))
GpathStrings ==
  {g \in UNION {[1..n -> GpathAlphabet] : n \in 0..MaxDirLen} :
     g = <<>> \/ IsStripped(g)}

InitGpath ==
  /\ InitLists(FALSE)
  /\ InitWorld([d \in EnvDirs |-> Nothing], FALSE)
  /\ \E name \in GpathNames : \E len \in 0..Len(name) :
       arg = Ptr([name |-> name, len |-> len])
  /\ ret = NULL

\* build_vpath_lists with VPATH empty and GPATH drawn
FinalizeGpath ==
  \E g \in GpathStrings :
    /\ ~built
    /\ ret = NULL
    /\ build_vpath_lists(<<>>, g)
    /\ built' = TRUE
    /\ UNCHANGED <<w32, nextDecl, db, dircache, disk, res, arg, ret>>

\* the call gpath_search (name, len)
GpathQuery ==
  /\ ret = NULL
  /\ ret' = Ptr(gpath_search(arg[1].name, arg[1].len))
  /\ UNCHANGED <<w32, vpaths, general_vpath, gpaths, built, nextDecl, db,
                 dircache, disk, res, arg>>

NextGpath == FinalizeGpath \/ GpathQuery

SpecGpath == InitGpath /\ [][NextGpath]_vars

----------------------------------------------------------------------------
(* Runs that declare one pattern and ask vpath_match about one file name,  *)
(* both drawn character by character                                       *)

\* the patterns: '%', '.' and letters, at least one character
MatchPatterns == UNION {[1..n -> {"%", ".", "o", "f"}] : n \in 1..MaxPatLen}

\* the file names: '.' and letters, at least one character
MatchNames == UNION {[1..n -> {".", "o", "f"}] : n \in 1..MaxPatLen}

InitMatch ==
  /\ InitLists(FALSE)
  /\ InitWorld([d \in EnvDirs |-> Nothing], FALSE)
  /\ \E pattern \in MatchPatterns, filename \in MatchNames :
       arg = Ptr([pattern |-> pattern, filename |-> filename])
  /\ ret = NULL

\* the directive "vpath pattern a"
DeclarePattern ==
  /\ nextDecl = 0
  /\ vpaths' = construct_vpath_list(vpaths, Ptr(arg[1].pattern), Ptr(DirA),
                                    FALSE, nextDecl + 1)
  /\ nextDecl' = nextDecl + 1
  /\ UNCHANGED <<w32, general_vpath, gpaths, built, db, dircache, disk, res,
                 arg, ret>>

\* the call vpath_match (v, filename) on the list declared
MatchQuery ==
  /\ vpaths # <<>>
  /\ ret = NULL
  /\ ret' = Ptr(vpath_match(vpaths[1], arg[1].filename))
  /\ UNCHANGED <<w32, vpaths, general_vpath, gpaths, built, nextDecl, db,
                 dircache, disk, res, arg>>

NextMatch == DeclarePattern \/ MatchQuery

SpecMatch == InitMatch /\ [][NextMatch]_vars

----------------------------------------------------------------------------
(* Runs that give one path list, drawn character by character, to the      *)
(* conversions of pathstuff.c and the result to the conversion back        *)

\* the characters of a path list
PathAlphabet == {"a", " ", "\\", "\"", ";"}

\* the path lists
PathStrings == UNION {[1..n -> PathAlphabet] : n \in 0..MaxPathLen}

\* the delimiters
Delims == {";", ":"}

InitConvert ==
  /\ InitLists(TRUE)
  /\ InitWorld([d \in EnvDirs |-> Nothing], FALSE)
  /\ \E Path \in PathStrings, delim \in Delims :
       arg = Ptr([Path |-> Path, delim |-> delim])
  /\ ret = NULL

\* convert_vpath_from_windows32 (Path, delim)
ConvertFrom ==
  /\ ret = NULL
  /\ ret' = Ptr(<<[op |-> "from",
                   out |-> convert_vpath_from_windows32(arg[1].Path,
                                                        arg[1].delim)]>>)
  /\ UNCHANGED <<w32, vpaths, general_vpath, gpaths, built, nextDecl, db,
                 dircache, disk, res, arg>>

\* convert_Path_to_windows32 (Path, delim)
ConvertTo ==
  /\ ret = NULL
  /\ ret' = Ptr(<<[op |-> "to",
                   out |-> convert_Path_to_windows32(arg[1].Path,
                                                     arg[1].delim)]>>)
  /\ UNCHANGED <<w32, vpaths, general_vpath, gpaths, built, nextDecl, db,
                 dircache, disk, res, arg>>

\* convert_vpath_from_windows32 on the string the first conversion returned
ConvertBack ==
  /\ ret # NULL
  /\ Len(ret[1]) = 1
  /\ ret[1][1].out # NULL
  /\ ret' = Ptr(Append(ret[1],
                       [op |-> "from",
                        out |-> convert_vpath_from_windows32(ret[1][1].out[1],
                                                             arg[1].delim)]))
  /\ UNCHANGED <<w32, vpaths, general_vpath, gpaths, built, nextDecl, db,
                 dircache, disk, res, arg>>

NextConvert == ConvertFrom \/ ConvertTo \/ ConvertBack

SpecConvert == InitConvert /\ [][NextConvert]_vars

----------------------------------------------------------------------------
(* The claims                                                              *)

Searched == res # NULL

\* the outputs of the call
Out == res[1]

\* the list and loop of the last selective_vpath_search call of the search
LastCall == Out.calls[Len(Out.calls)]

\* does the selective list at position j match the file searched for?
Matches(j) == vpath_match(vpaths[j], Out.file)

\* what the list at position j gives when it is searched in loop ph
Yield(j, ph) ==
  selective_vpath_search(
    [vpaths[j] EXCEPT !.target_goal = IF ph = 1 THEN FALSE ELSE @],
    Out.file, Out.want_mtime)

\* the list at position j is one that loop ph searches with a result
YieldsIn(j, ph) ==
  /\ Matches(j)
  /\ ph = 2 => vpaths[j].target_goal
  /\ Yield(j, ph).status = "found"

\* C1: after the directives and the one finalize, each of the two selective
\* loops visits the lists in the order of their declaration, and a result of
\* a selective loop is the result of the earliest declared list that yields
\* one in that loop.
C1_DeclarationOrder ==
  Searched =>
    /\ \A a, b \in 1..Len(Out.calls) :
         (a < b /\ Out.calls[a][1] = Out.calls[b][1] /\ Out.calls[a][1] # 3)
           => vpaths[Out.calls[a][2]].decl < vpaths[Out.calls[b][2]].decl
    /\ (Out.status = "found" /\ Out.phase \in {1, 2}) =>
         LET k == LastCall[2] IN
           /\ Out.name = Yield(k, Out.phase).name
           /\ Out.path_index = Yield(k, Out.phase).path_index
           /\ \A j \in 1..Len(vpaths) :
                (j # k /\ YieldsIn(j, Out.phase))
                  => vpaths[k].decl < vpaths[j].decl

\* two lists yield in the loop that produced the result, at different
\* directory indexes
C1_Witness ==
  /\ Searched
  /\ Out.status = "found"
  /\ Out.phase \in {1, 2}
  /\ \E j \in 1..Len(vpaths) :
       /\ j # LastCall[2]
       /\ YieldsIn(j, Out.phase)
       /\ Yield(j, Out.phase).path_index # Out.path_index

\* C2: a speculative first-directory name is returned only if no matching
\* selective list accepts a candidate when searched with its flag cleared, and
\* a name of the general list only if no matching selective list yields a
\* result in the first or in the second loop.
C2_PhaseOrder ==
  (Searched /\ Out.status = "found") =>
    /\ Out.speculative =>
         \A j \in 1..Len(vpaths) : Matches(j) => Yield(j, 1).status = "none"
    /\ Out.phase = 3 =>
         \A j \in 1..Len(vpaths) : ~YieldsIn(j, 1) /\ ~YieldsIn(j, 2)

\* a speculative name is returned, and a matching list declared after the one
\* that gives it was searched before
C2_Witness ==
  /\ Searched
  /\ Out.status = "found"
  /\ Out.speculative
  /\ \E j \in 1..Len(vpaths) :
       j > LastCall[2] /\ Matches(j) /\ ~vpaths[j].target_goal

\* a string without its trailing slashes
RECURSIVE NoTrailingSlash(_)
NoTrailingSlash(str) ==
  IF Len(str) > 0 /\ str[Len(str)] = "/"
  THEN NoTrailingSlash(SubSeq(str, 1, Len(str) - 1))
  ELSE str

\* the candidate path of the specification: entry + "/" + prefix (if not
\* empty) + "/" + base name, one separator at each join
CandidatePath(entry, file) ==
  NoTrailingSlash(entry) \o <<"/">>
    \o (IF PrefixOf(file) # <<>>
        THEN NoTrailingSlash(PrefixOf(file)) \o <<"/">> ELSE <<>>)
    \o BaseOf(file)

\* the database accepts the candidate c for the file searched for
DbAccepts(c) ==
  \E f \in db :
    /\ f.name = c
    /\ (\E g \in db : g.name = Out.file /\ g.is_target) => f.is_target

\* the directory cache lists the candidate of entry for the file searched for
CacheLists(entry) ==
  <<DirKey(IF PrefixOf(Out.file) = <<>> THEN entry
           ELSE TruePath(entry, PrefixOf(Out.file))),
    BaseOf(Out.file)>> \in dircache

\* the list that gave the result, with the flag it was searched with
Producer ==
  IF Out.phase = 3 THEN general_vpath[1]
  ELSE [vpaths[LastCall[2]] EXCEPT
          !.target_goal = IF Out.phase = 1 THEN FALSE ELSE @]

\* the positions of the matching target-goal lists
TargetGoalMatches == {j \in 1..Len(vpaths) : Matches(j) /\ vpaths[j].target_goal}

\* the first of them in the chain
FirstTargetGoal == CHOOSE j \in TargetGoalMatches : \A k \in TargetGoalMatches : j <= k

\* C3: when the file name matches a target-goal list and neither the database
\* nor the directory cache accepts a candidate in any directory of any
\* matching selective list, the search returns the candidate of directory 0
\* of the first matching target-goal list, with modification time unknown and
\* directory index 0.
C3_TargetGoalFallback ==
  (/\ Searched
   /\ ~IsAbsolute(Out.file)
   /\ TargetGoalMatches # {}
   /\ \A j \in 1..Len(vpaths) : Matches(j) =>
        \A i \in 1..Len(vpaths[j].searchpath) :
          /\ ~DbAccepts(CandidatePath(vpaths[j].searchpath[i], Out.file))
          /\ ~CacheLists(vpaths[j].searchpath[i]))
  => /\ Out.status = "found"
     /\ Out.name = CandidatePath(vpaths[FirstTargetGoal].searchpath[1], Out.file)
     /\ Out.want_mtime => Out.mtime = "UNKNOWN_MTIME"
     /\ Out.path_index = 0

\* C5: within one list the entries are scanned in list order: the result is
\* the candidate of the lowest-index entry that is accepted, and the directory
\* index reported is the index of that entry.
C5_LowestAcceptedEntry ==
  (Searched /\ Out.status = "found" /\ ~Out.speculative) =>
    /\ TryEntry(Producer, Out.file, Out.want_mtime, Out.path_index,
                Producer.target_goal).kind = "accept"
    /\ \A i \in 0..(Out.path_index - 1) :
         TryEntry(Producer, Out.file, Out.want_mtime, i,
                  Producer.target_goal).kind # "accept"
    /\ Out.name = CandidatePath(Producer.searchpath[Out.path_index + 1], Out.file)

\* C7: the name returned is entry + "/" + prefix (if not empty) + "/" + base
\* name with one separator at each join, and it ends with the unaltered base
\* name.
C7_CandidateName ==
  (Searched /\ Out.status = "found") =>
    LET entry == Producer.searchpath[Out.path_index + 1]
        base  == BaseOf(Out.file)
    IN  /\ Out.name = CandidatePath(entry, Out.file)
        /\ Len(Out.name) > Len(base)
        /\ From(Out.name, Len(Out.name) - Len(base) + 1) = base

\* the file searched for is a declared target
FileIsTarget == \E g \in db : g.name = Out.file /\ g.is_target

\* the lists of the collection a search can scan, each with the flag of a
\* loop that scans it
ScannedLists ==
  {[vpaths[j] EXCEPT !.target_goal = FALSE] : j \in {k \in 1..Len(vpaths) : Matches(k)}}
  \cup {vpaths[j] : j \in {k \in 1..Len(vpaths) : Matches(k)}}
  \cup {general_vpath[j] : j \in 1..Len(general_vpath)}

\* the database entry at the candidate of entry i (0-based) of list, or NULL
EntryAt(list, i) == lookup_file(BuildName(list.searchpath[i + 1], Out.file).name)

\* the database holds an entry that is not a target at that candidate
PlainEntryAt(list, i) ==
  EntryAt(list, i) # NULL /\ ~EntryAt(list, i)[1].is_target

\* what the scan of list decides for its entry i
Decision(list, i) ==
  TryEntry(list, Out.file, Out.want_mtime, i, list.target_goal)

\* C4, as stated: with a database entry that is not a target at the candidate,
\* neither loop accepts the candidate when the file searched for is a declared
\* target, and both accept it when it is not.
C4_AsymmetricTargetRule ==
  Searched =>
    \A list \in ScannedLists : \A i \in 0..(Len(list.searchpath) - 1) :
      PlainEntryAt(list, i) =>
        IF FileIsTarget THEN Decision(list, i).kind # "accept"
        ELSE Decision(list, i).kind = "accept"

\* C4, amended: with a database entry that is not a target at the candidate
\* and a file searched for that is a declared target, a loop accepts the
\* candidate exactly when the directory cache lists the file in the
\* candidate's directory; when the file is not a declared target, the entry
\* makes the candidate accepted.
C4_AsymmetricTargetRuleAmended ==
  Searched =>
    \A list \in ScannedLists : \A i \in 0..(Len(list.searchpath) - 1) :
      PlainEntryAt(list, i) =>
        IF FileIsTarget
        THEN Decision(list, i).kind = "accept" <=> CacheLists(list.searchpath[i + 1])
        ELSE Decision(list, i).kind = "accept"

\* a declared target is placed speculatively although the database holds an
\* entry, not a target, at a candidate of the list searched
C4_Witness ==
  /\ Searched
  /\ FileIsTarget
  /\ Out.status = "found"
  /\ Out.speculative
  /\ \E i \in 0..(Len(Producer.searchpath) - 1) : PlainEntryAt(Producer, i)

\* C6: the search returns not-found, and searches no list, for an absolute
\* file name (leading '/', and with DOS paths a leading backslash or ':' as
\* second character) and for a collection without selective and general list.
C6_Guard ==
  (/\ Searched
   /\ \/ Out.file[1] = "/"
      \/ w32 /\ (Out.file[1] = "\\" \/ Out.file[2] = ":")
      \/ vpaths = <<>> /\ general_vpath = NULL)
  => Out.status = "none" /\ Out.calls = <<>>

\* with DOS paths a drive-letter name is not searched for, though a list of
\* the collection matches it
C6_Witness ==
  /\ Searched
  /\ w32
  /\ Out.file = FileDrive
  /\ \E j \in 1..Len(vpaths) : Matches(j)
  /\ Out.status = "none"

PatternKey(pattern) == <<pattern, find_percent(pattern)>>

\* the lists a directive (pattern, absent directory string, category) names
NamedBy(list, pattern, category) ==
  /\ list.target_goal = category
  /\ pattern # NULL => PatternKey(list.pattern) = PatternKey(pattern[1])

\* the chain without the lists the directive names
KeepOthers(chain, pattern, category) ==
  SelectSeq(chain, LAMBDA l : ~NamedBy(l, pattern, category))

\* the directives without directory string
Removals == ({NULL} \cup {Ptr(q) : q \in Patterns}) \X BOOLEAN

\* C9: construct_vpath_list with an absent directory string removes exactly
\* the lists of the given category whose PatternKey is that of the given
\* pattern (all lists of the category when the pattern is absent too); the
\* other lists stay as they are and in their order, and the chain is left
\* alone when the directive names no list.
C9_DeleteSemantics ==
  ~built =>
    \A d \in Removals :
      LET after == construct_vpath_list(vpaths, d[1], NULL, d[2], 0) IN
        /\ after = KeepOthers(vpaths, d[1], d[2])
        /\ (\A j \in 1..Len(vpaths) : ~NamedBy(vpaths[j], d[1], d[2]))
             => after = vpaths
        /\ \A j \in 1..Len(vpaths) :
             vpaths[j].target_goal # d[2] =>
               \E k \in 1..Len(after) : after[k] = vpaths[j]

\* of two lists declared, a removal took the first and left the second
C9_Witness ==
  /\ ~built
  /\ nextDecl = 2
  /\ Len(vpaths) = 1
  /\ vpaths[1].decl = 2
  /\ Len(vpaths[1].searchpath) = 2

\* the directives with a directory string that holds an entry
Additions ==
  {d \in Patterns \X DirStrings \X BOOLEAN :
     construct_vpath_list(<<>>, Ptr(d[1]), Ptr(d[2]), d[3], 0) # <<>>}

\* two lists that the same directive, applied twice, has made
Twins(a, b) ==
  /\ a.pattern = b.pattern
  /\ a.searchpath = b.searchpath
  /\ a.target_goal = b.target_goal
  /\ a.decl # b.decl

\* C10: a directive (pattern, dirs, category) whose directory string holds an
\* entry, applied twice, puts two lists in the chain; a search for a matching
\* relative file name that the first loop does not end with a find searches
\* both, the earlier one first; and the directive of that pattern and
\* category without directory string removes both.
C10_Stacking ==
  /\ ~built =>
       \A d \in Additions :
         LET once  == construct_vpath_list(vpaths, Ptr(d[1]), Ptr(d[2]), d[3],
                                           nextDecl + 1)
             twice == construct_vpath_list(once, Ptr(d[1]), Ptr(d[2]), d[3],
                                           nextDecl + 2)
             gone  == construct_vpath_list(twice, Ptr(d[1]), NULL, d[3], 0)
         IN  /\ Len(twice) = Len(vpaths) + 2
             /\ Twins(twice[1], twice[2])
             /\ SubSeq(twice, 3, Len(twice)) = vpaths
             /\ \A k \in 1..Len(gone) : ~NamedBy(gone[k], Ptr(d[1]), d[3])
             /\ gone = construct_vpath_list(vpaths, Ptr(d[1]), NULL, d[3], 0)
  /\ Searched =>
       \A j, k \in 1..Len(vpaths) :
         (/\ j < k
          /\ Twins(vpaths[j], vpaths[k])
          /\ Matches(j)
          /\ ~IsAbsolute(Out.file)
          /\ ~(Out.status = "found" /\ Out.phase = 1))
         => \E a, b \in 1..Len(Out.calls) :
              a < b /\ Out.calls[a] = <<1, j>> /\ Out.calls[b] = <<1, k>>

\* a search went through both lists of a directive applied twice
C10_Witness ==
  /\ Searched
  /\ Len(vpaths) = 2
  /\ Twins(vpaths[1], vpaths[2])
  /\ Matches(1)
  /\ \E a, b \in 1..Len(Out.calls) :
       a < b /\ Out.calls[a] = <<1, 1>> /\ Out.calls[b] = <<1, 2>>

\* the lists of the collection: selective, general and exclusion
AllLists ==
  {vpaths[j] : j \in 1..Len(vpaths)}
  \cup {general_vpath[j] : j \in 1..Len(general_vpath)}
  \cup {gpaths[j] : j \in 1..Len(gpaths)}

\* the directory entries the collection stores
StoredEntries ==
  UNION {{l.searchpath[i] : i \in 1..Len(l.searchpath)} : l \in AllLists}

\* the entry ends with a directory separator
EndsWithSeparator(e) ==
  e # <<>> /\ (e[Len(e)] = "/" \/ (w32 /\ e[Len(e)] = "\\"))

\* the entry names a root: "/", and with DOS paths "\" or a drive's root
IsRootEntry(e) ==
  \/ e = <<"/">>
  \/ w32 /\ (e = <<"\\">> \/ (Len(e) = 3 /\ e[2] = ":"))

\* C11: no stored directory entry is "." and none ends with a separator,
\* the entry of a root apart.
C11_EntryCanonical ==
  \A e \in StoredEntries :
    e # <<".">> /\ (EndsWithSeparator(e) => IsRootEntry(e))

\* the directory string as construct_vpath_list parses it: the string drawn,
\* with DOS paths after its conversion (NULL when that gives nothing)
ParsedDirpath ==
  IF w32 THEN convert_vpath_from_windows32(arg[1].dirpath, ";")
  ELSE Ptr(arg[1].dirpath)

\* number of backslashes in a row that end at position i of s
RECURSIVE BackslashRun(_, _)
BackslashRun(s, i) ==
  IF i >= 1 /\ i <= Len(s) /\ s[i] = "\\" THEN 1 + BackslashRun(s, i - 1) ELSE 0

\* position i of s holds a character that ends an entry
EndsEntry(s, i) ==
  \/ s[i] = PATH_SEPARATOR_CHAR
  \/ ISBLANK(s[i]) /\ BackslashRun(s, i - 1) % 2 = 0

\* s holds a '/' that is an entry of its own
HasBareRoot(s) ==
  \E i \in 1..Len(s) :
    /\ s[i] = "/"
    /\ i = 1 \/ EndsEntry(s, i - 1)
    /\ i = Len(s) \/ EndsEntry(s, i + 1)

\* C12: no stored directory entry is the empty string, and a '/' that stands
\* alone in a directory string is stored as "/".
C12_NoEmptyEntry ==
  /\ \A e \in StoredEntries : Len(e) >= 1
  /\ (ret # NULL /\ ParsedDirpath # NULL /\ HasBareRoot(ParsedDirpath[1])) =>
       \E j \in 1..Len(vpaths) : \E i \in 1..Len(vpaths[j].searchpath) :
         vpaths[j].searchpath[i] = <<"/">>
  /\ (built /\ ParsedDirpath # NULL /\ HasBareRoot(ParsedDirpath[1])) =>
       \E l \in AllLists \ {vpaths[j] : j \in 1..Len(vpaths)} :
         \E i \in 1..Len(l.searchpath) : l.searchpath[i] = <<"/">>

\* the string ": /" (separator, blank, slash) gave the one entry "/"
C12_Witness ==
  /\ ret # NULL
  /\ Len(arg[1].dirpath) = 3
  /\ arg[1].dirpath[3] = "/"
  /\ EndsEntry(arg[1].dirpath, 1)
  /\ EndsEntry(arg[1].dirpath, 2)
  /\ \E j \in 1..Len(vpaths) : vpaths[j].searchpath = <<<<"/">>>>

\* every character of s is a blank, a separator or a '.' that stands alone
OnlyDotEntries(s) ==
  \A i \in 1..Len(s) :
    \/ StopBlankOrSep(s[i])
    \/ /\ s[i] = "."
       /\ i = 1 \/ StopBlankOrSep(s[i - 1])
       /\ i = Len(s) \/ StopBlankOrSep(s[i + 1])

\* the directory string drawn leaves no entry
NoSurvivor == ParsedDirpath = NULL \/ OnlyDotEntries(ParsedDirpath[1])

\* C13: a directive whose directory string leaves no entry creates no list
\* and leaves the selective chain as it is, build_vpath_lists stores no list
\* for such a value, and every list of the collection has an entry.
C13_NoOpDirective ==
  [][/\ (ret = NULL /\ ret' # NULL /\ NoSurvivor) =>
          vpaths' = vpaths /\ nextDecl' = nextDecl
     /\ (~built /\ built' /\ NoSurvivor) =>
          general_vpath' = NULL /\ gpaths' = NULL
     /\ (\A l \in AllLists : Len(l.searchpath) >= 1)']_vars

\* the directive ". ." came after another one and left its list alone
C13_Witness ==
  /\ ret # NULL
  /\ Len(arg[1].dirpath) = 3
  /\ arg[1].dirpath[1] = "."
  /\ NoSurvivor
  /\ Len(vpaths) = 1
  /\ vpaths[1].decl = 1

\* the search path stored for the directive with the string drawn
NewPath ==
  IF \E j \in 1..Len(vpaths) : vpaths[j].pattern = PatO
  THEN vpaths[CHOOSE j \in 1..Len(vpaths) : vpaths[j].pattern = PatO].searchpath
  ELSE <<>>

\* the positions of s where an entry runs: those not in ends
RunStarts(s, ends) ==
  {a \in 1..Len(s) \ ends : a = 1 \/ a - 1 \in ends}

\* the run of s that starts at a
RunAt(s, ends, a) ==
  SubSeq(s, a, CHOOSE b \in a..Len(s) :
                 /\ \A i \in a..b : i \notin ends
                 /\ b = Len(s) \/ b + 1 \in ends)

\* a run that is the current directory and is not stored
IsDotRun(r) ==
  /\ r[1] = "."
  /\ \/ Len(r) = 1
     \/ Len(r) = 2 /\ (r[2] = "/" \/ (w32 /\ r[2] = "\\"))

\* the runs of s that are stored
KeptStarts(s, ends) == {a \in RunStarts(s, ends) : ~IsDotRun(RunAt(s, ends, a))}

\* path holds the kept runs of s in their order, each whole or less a last
\* character
SplitsAt(path, s, ends) ==
  /\ Len(path) = Cardinality(KeptStarts(s, ends))
  /\ \A a \in KeptStarts(s, ends) :
       LET k == Cardinality({b \in KeptStarts(s, ends) : b <= a})
           r == RunAt(s, ends, a)
       IN  /\ Len(path[k]) \in {Len(r) - 1, Len(r)}
           /\ path[k] = SubSeq(r, 1, Len(path[k]))

\* the positions of s that hold a blank or a path separator after an even
\* number of backslashes
UnescapedSeparators(s) ==
  {i \in 1..Len(s) : StopBlankOrSep(s[i]) /\ BackslashRun(s, i - 1) % 2 = 0}

\* the positions of s that hold a path separator, or a blank after an even
\* number of backslashes
SeparatorsAndUnescapedBlanks(s) == {i \in 1..Len(s) : EndsEntry(s, i)}

Finalizes == ~built /\ built'

\* C15: build_vpath_lists leaves in the selective chain exactly the lists it
\* held, in reverse order; the general list and the exclusion list are not
\* in the chain and neither has a successor.
C15_ListsKeptApart ==
  [][Finalizes =>
       /\ Len(vpaths') = Len(vpaths)
       /\ \A j \in 1..Len(vpaths) : vpaths'[j] = vpaths[Len(vpaths) - j + 1]
       /\ \A j \in 1..Len(vpaths') :
            /\ general_vpath' # NULL => vpaths'[j] # general_vpath'[1]
            /\ gpaths' # NULL => vpaths'[j] # gpaths'[1]
       /\ Len(general_vpath') <= 1
       /\ Len(gpaths') <= 1]_vars

\* build_vpath_lists stored both lists next to a chain of two lists
C15_Witness ==
  /\ built
  /\ Len(vpaths) = 2
  /\ vpaths[1].decl < vpaths[2].decl
  /\ general_vpath # NULL
  /\ gpaths # NULL

\* a step that is one call of vpath_search
Searches == res = NULL /\ res' # NULL

\* C16: a call of vpath_search, whatever its result, leaves every selective
\* list and the general list as they were: pattern, directory entries,
\* position in the chain and target-goal flag.
C16_SearchKeepsLists ==
  [][Searches => vpaths' = vpaths /\ general_vpath' = general_vpath]_vars

\* the first loop missed in one target-goal list and hit in the next one
C16_Witness ==
  /\ Searched
  /\ Out.status = "found"
  /\ Out.phase = 1
  /\ Out.calls = <<<<1, 1>>, <<1, 2>>>>
  /\ vpaths[1].target_goal
  /\ vpaths[2].target_goal

\* the entries of the exclusion list
ExclusionEntries ==
  IF gpaths = NULL THEN {}
  ELSE {gpaths[1].searchpath[i] : i \in 1..Len(gpaths[1].searchpath)}

\* C17: gpath_search (name, len) is true exactly when there is an exclusion
\* list and one of its entries is len characters long and equal to the first
\* len characters of name.
C17_ExactEntry ==
  ret # NULL =>
    (ret[1] <=> \E e \in ExclusionEntries :
                  Len(e) = arg[1].len /\ e = SubSeq(arg[1].name, 1, arg[1].len))

\* the answer is no although one entry is the prefix less its last character
\* and another the prefix and one character more of the name
C17_Witness ==
  /\ ret = Ptr(FALSE)
  /\ arg[1].len >= 2
  /\ \E e \in ExclusionEntries : e = SubSeq(arg[1].name, 1, arg[1].len - 1)
  /\ \E e \in ExclusionEntries :
       Len(arg[1].name) > arg[1].len /\ e = SubSeq(arg[1].name, 1, arg[1].len + 1)

\* C18: the outputs of a call of vpath_search are those of the same call
\* made with any other exclusion list, or with none, in the place of the one
\* the call was made with.
C18_ExclusionNotConsulted ==
  Searched =>
    \A o \in {vpath_search(vpaths, general_vpath, Out.file, Out.want_mtime)} :
      Out = [x \in DOMAIN o \ {"chain"} |-> o[x]]

\* a search found the file in a directory that the exclusion list names
C18_Witness ==
  /\ Searched
  /\ Out.status = "found"
  /\ Out.phase \in {1, 2}
  /\ vpaths[LastCall[2]].searchpath[Out.path_index + 1] \in ExclusionEntries

\* the matcher taken alone: file name against pattern
PlainMatch(pattern, filename) ==
  pattern_matches(pattern, find_percent(pattern), filename)

\* pattern ends in a literal '.'
EndsInDot(pattern) == pattern[Len(pattern)] = "."

\* pattern less its last character
WithoutLast(pattern) == SubSeq(pattern, 1, Len(pattern) - 1)

\* file name without any '.'
Dotless(filename) == \A i \in 1..Len(filename) : filename[i] # "."

\* the pattern "%.o."
PatODot == <<"%", ".", "o", ".">>

\* C19: a wildcard pattern that ends in a literal '.', such as "%.o.",
\* matches every file name without a '.', which the matcher alone does not
\* accept.
C19_DotFallback ==
  (/\ ret # NULL
   /\ find_percent(arg[1].pattern) # 0
   /\ EndsInDot(arg[1].pattern)
   /\ Dotless(arg[1].filename)) =>
    /\ ret[1]
    /\ ~PlainMatch(arg[1].pattern, arg[1].filename)

\* C19, amended: a pattern that ends in a literal '.' matches a file name
\* without a '.', which the matcher alone does not accept, exactly when the
\* matcher accepts the file name against the pattern less that '.'; "%."
\* matches every such file name and "%.o." none.
C19_DotFallbackAmended ==
  (ret # NULL /\ EndsInDot(arg[1].pattern) /\ Dotless(arg[1].filename)) =>
    /\ ret[1] <=> PlainMatch(WithoutLast(arg[1].pattern), arg[1].filename)
    /\ ~PlainMatch(arg[1].pattern, arg[1].filename)
    /\ arg[1].pattern = <<"%", ".">> => ret[1]
    /\ arg[1].pattern = PatODot => ~ret[1]

\* "f%." matched a file name without '.' of more than one character
C19_Witness ==
  /\ ret = Ptr(TRUE)
  /\ arg[1].pattern = <<"f", "%", ".">>
  /\ Dotless(arg[1].filename)
  /\ Len(arg[1].filename) > 1

\* C20: vpath_match is true exactly when the matcher accepts the file name
\* against the pattern, or the pattern ends in '.', the file name has no '.'
\* and the matcher accepts it against the pattern less that '.'; for a file
\* name with a '.' and for a pattern that does not end in '.' the result is
\* that of the matcher.
C20_MatchRule ==
  ret # NULL =>
    /\ ret[1] <=>
         \/ PlainMatch(arg[1].pattern, arg[1].filename)
         \/ /\ EndsInDot(arg[1].pattern)
            /\ Dotless(arg[1].filename)
            /\ PlainMatch(WithoutLast(arg[1].pattern), arg[1].filename)
    /\ (~Dotless(arg[1].filename) \/ ~EndsInDot(arg[1].pattern)) =>
         (ret[1] <=> PlainMatch(arg[1].pattern, arg[1].filename))

\* the second try decided: the pattern "%." took a file name without '.'
C20_Witness ==
  /\ ret = Ptr(TRUE)
  /\ arg[1].pattern = <<"%", ".">>
  /\ Dotless(arg[1].filename)
  /\ ~PlainMatch(arg[1].pattern, arg[1].filename)

\* the blank at position i of c follows an odd number of backslashes
EscapedBlank(c, i) == ISBLANK(c[i]) /\ BackslashRun(c, i - 1) % 2 = 1

\* c is a list of directory strings in canonical form: the entries are
\* separated by one blank, the spaces inside an entry are escaped by a
\* backslash, no entry ends in a space, and there is no double quote, no
\* delimiter and no path separator in it
Canonical(c, delim) ==
  /\ c # <<>>
  /\ ~ISBLANK(c[1])
  /\ \A i \in 1..Len(c) :
       /\ c[i] \notin {"\"", delim, PATH_SEPARATOR_CHAR}
       /\ ISBLANK(c[i]) => i < Len(c) /\ ~ISBLANK(c[i + 1])

\* the first conversion of the run and the conversion back
First == ret[1][1]
Second == ret[1][2]

AcceptingEntries ==
  {f \in db : f.name = Out.name /\ DbAccepts(Out.name)}

\* a search that asked for the modification time returned a name that the
\* database mentions
FoundInDb ==
  /\ Searched
  /\ Out.status = "found"
  /\ ~Out.speculative
  /\ Out.want_mtime
  /\ AcceptingEntries # {}

\* C22: when the returned name is accepted because the database mentions it
\* and the modification time was asked for, the time reported is the
\* timestamp the database holds for the entry, not UNKNOWN_MTIME.
C22_DbTimestamp ==
  FoundInDb =>
    \A f \in AcceptingEntries :
      f.last_mtime # "UNKNOWN_MTIME" => Out.mtime = f.last_mtime

\* C22, amended: when the returned name is accepted because the database
\* mentions it and the modification time was asked for, the time reported
\* is the timestamp of the entry if that is OLD_MTIME or NEW_MTIME, and
\* UNKNOWN_MTIME for every other timestamp the entry holds.
C22_DbTimestampAmended ==
  FoundInDb =>
    \A f \in AcceptingEntries :
      Out.mtime = IF f.last_mtime \in {"OLD_MTIME", "NEW_MTIME"}
                  THEN f.last_mtime ELSE "UNKNOWN_MTIME"

\* the entry of the returned name holds NEW_MTIME and the search reports it
C22_Witness ==
  /\ FoundInDb
  /\ Out.mtime = "NEW_MTIME"
  /\ \E f \in AcceptingEntries : f.last_mtime = "NEW_MTIME"

\* C23: the branch of selective_vpath_search that records the first-directory
\* name is taken at directory index 0 only: assert (i == 0) never fails, and
\* a speculative name is reported with index 0, begins with the first
\* directory of its list and is not the candidate of a later one.
C23_FallbackAtIndexZero ==
  Searched =>
    /\ Out.failed # "i == 0"
    /\ (Out.status = "found" /\ Out.speculative) =>
         /\ Out.path_index = 0
         /\ Len(Out.name) > Len(Producer.searchpath[1])
         /\ SubSeq(Out.name, 1, Len(Producer.searchpath[1]))
              = Producer.searchpath[1]
         /\ \A i \in 2..Len(Producer.searchpath) :
              Producer.searchpath[i] # Producer.searchpath[1]
                => Out.name # CandidatePath(Producer.searchpath[i], Out.file)

\* a speculative name came from a list of two entries or more
C23_Witness ==
  /\ Searched
  /\ Out.status = "found"
  /\ Out.speculative
  /\ Len(Producer.searchpath) >= 2

\* bytes of the scratch buffer of selective_vpath_search for list l and file
ScratchSize(l, file) ==
  l.maxlen + 1 + SplitFile(file).name_dplen + 1 + SplitFile(file).flen + 1

\* C24: the maxlen of every list is the largest length of its entries, and
\* the name selective_vpath_search builds for any entry of the list and any
\* file name, with its terminator, fits the scratch buffer.
C24_CandidateFits ==
  \A l \in AllLists :
    /\ \A i \in 1..Len(l.searchpath) : Len(l.searchpath[i]) <= l.maxlen
    /\ \E i \in 1..Len(l.searchpath) : Len(l.searchpath[i]) = l.maxlen
    /\ \A i \in 1..Len(l.searchpath), file \in RelFiles :
         Len(BuildName(l.searchpath[i], file).name) + 1 <= ScratchSize(l, file)

\* a list whose longest entry is not its first
C24_Witness ==
  \E l \in AllLists :
    /\ Len(l.searchpath) >= 2
    /\ Len(l.searchpath[1]) < l.maxlen

\* s without the blanks at its two ends
Trim(s) == DropTrailingBlanks(From(s, SkipBlanks(s, 1)))

\* s is a name made of letters
AllLetters(s) == s # <<>> /\ \A i \in 1..Len(s) : s[i] = "a"

\* the entries construct_vpath_list reads from the canonical string c
EntriesOf(c) == ParseEntries(c, SkipSeparators(c, 1), <<>>)

\* C25: two names with one delimiter between them, with or without blanks
\* around the delimiter and at the ends, are converted to a string that
\* construct_vpath_list splits into exactly the two names.
C25_DelimiterSeparates ==
  (ret # NULL /\ First.op = "from") =>
    \A k \in 1..Len(arg[1].Path) :
      (/\ arg[1].Path[k] = arg[1].delim
       /\ AllLetters(Trim(SubSeq(arg[1].Path, 1, k - 1)))
       /\ AllLetters(Trim(SubSeq(arg[1].Path, k + 1, Len(arg[1].Path)))))
      => /\ First.out # NULL
         /\ EntriesOf(First.out[1])
              = <<Trim(SubSeq(arg[1].Path, 1, k - 1)),
                  Trim(SubSeq(arg[1].Path, k + 1, Len(arg[1].Path)))>>

\* the run converted Path and then the result of that conversion
ConvertedTwice == ret # NULL /\ Len(ret[1]) = 2 /\ First.op = "from"

C27_LengthIsStrlen ==
  Searched =>
    /\ Out.failed # "tgt_len == strlen(name)"
    /\ Out.status = "found" => Out.len = Len(Out.name)

\* C28: a relative file name that matches a target-goal list is resolved by
\* the two loops over the selective lists: the search does not fail and
\* does not return a name of the general list, whether or not the file is a
\* target in the database.
C28_SelectiveResolves ==
  (Searched /\ ~IsAbsolute(Out.file) /\ TargetGoalMatches # {})
  => /\ Out.status = "found"
     /\ Out.phase \in {1, 2}

\* C29: a result of a selective loop is reported with the 0-based position,
\* in the whole chain in search order, of the list that gave it: that list
\* yields the result in that loop and no list before it does, whatever lists
\* stand before it; a general-list result and a failure are reported with
\* index 0.
C29_ListIndex ==
  (Searched /\ Out.status \in {"found", "none"}) =>
    IF Out.status = "found" /\ Out.phase \in {1, 2}
    THEN /\ Out.vpath_index + 1 \in 1..Len(vpaths)
         /\ YieldsIn(Out.vpath_index + 1, Out.phase)
         /\ Out.name = Yield(Out.vpath_index + 1, Out.phase).name
         /\ \A j \in 1..Out.vpath_index : ~YieldsIn(j, Out.phase)
    ELSE Out.vpath_index = 0

\* the second loop found the name in the second list of the chain, behind a
\* list that does not match the file and is no target-goal list
C29_Witness ==
  /\ Searched
  /\ Out.status = "found"
  /\ Out.phase = 2
  /\ Out.vpath_index = 1
  /\ ~Matches(1)
  /\ ~vpaths[1].target_goal

\* C30: *target_path is the target-goal flag of the list that gave the
\* result, as the list carries it after the search, also when the first
\* loop found the name with the flag cleared; it is false for a result of
\* the general list and for a failure.
C30_TargetPath ==
  (Searched /\ Out.status \in {"found", "none"}) =>
    IF Out.status = "found" /\ Out.phase \in {1, 2}
    THEN /\ Out.target_path = vpaths[LastCall[2]].target_goal
         /\ Out.phase = 2 => Out.target_path
         /\ Out.speculative => Out.target_path
    ELSE ~Out.target_path

\* the first loop found the name in a target-goal list
C30_Witness ==
  /\ Searched
  /\ Out.status = "found"
  /\ Out.phase = 1
  /\ ~Out.speculative
  /\ vpaths[LastCall[2]].target_goal
  /\ Out.target_path

====
